---- MODULE Spec2Model ----
(***************************************************************************)
(* A model of lib/gdbproxy.py: GdbProxy runs GDB behind a pseudo-terminal, *)
(* copies the keyboard and the control socket to the child, and copies the *)
(* child's output to the terminal through a StreamFilter that hides the    *)
(* echo of injected "server nvim-gdb-" commands up to the next prompt.     *)
(*                                                                         *)
(* The program is GdbProxy.__init__ from line 31 to line 77; the model     *)
(* follows it statement by statement (pc), with _process, _write and       *)
(* _set_pty_size unfolded into their steps.  Python signal handlers run    *)
(* between the steps of the main flow and may nest.                        *)
(***************************************************************************)
EXTENDS Naturals, Integers, Sequences, FiniteSets, TLC

(***************************************************************************)
(* Bounds of the model.                                                    *)
(***************************************************************************)
MaxX == 1          \* longest output before the hidden command
MaxZ == 2          \* longest output after the prompt
MaxKeys == 2       \* keyboard chunks typed in one session
MaxPayloads == 1   \* datagrams sent to the control socket in one session
MaxNest == 2       \* SIGWINCH handlers that may be active at once
MaxBuf == 2        \* bytes a queue of the pty holds, in each direction

(***************************************************************************)
(* Program constants.                                                      *)
(***************************************************************************)
\* b"server nvim-gdb-", the first argument of StreamFilter (line 46)
hidden_prefix ==
    <<"s", "e", "r", "v", "e", "r", " ", "n", "v", "i", "m", "-", "g", "d", "b", "-">>
\* b"\n(gdb) ", the second argument of StreamFilter (line 47)
resume_marker == <<"\n", "(", "g", "d", "b", ")", " ">>
\* the size argument of os.read (lines 107 and 110)
ReadSize == 1024

STDIN == "stdin"      \* pty.STDIN_FILENO
STDOUT == "stdout"    \* pty.STDOUT_FILENO
MASTER == "master"    \* self.master_fd
SOCK == "sock"        \* self.sock

(***************************************************************************)
(* Sequences.                                                              *)
(***************************************************************************)
Min(a, b) == IF a <= b THEN a ELSE b

Take(s, n) == SubSeq(s, 1, n)

Drop(s, n) == SubSeq(s, n + 1, Len(s))

Last(s, n) == SubSeq(s, Len(s) - n + 1, Len(s))

IsPrefix(p, s) == Len(p) <= Len(s) /\ Take(s, Len(p)) = p

\* All sequences over S of length at most n.
SeqsUpTo(S, n) == UNION {[1..k -> S] : k \in 0..n}

\* Whether pat occurs in s.
Occurs(pat, s) ==
    \E i \in 0..(Len(s) - Len(pat)) : SubSeq(s, i + 1, i + Len(pat)) = pat

(***************************************************************************)
(* The StreamFilter: consume (Filter) and flush_on_timeout (Timeout).      *)
(* State: whether it is suppressing, the match cursor against the pattern  *)
(* it is looking for (hidden_prefix when passing, resume_marker when       *)
(* suppressing), and the bytes provisionally withheld.                     *)
(***************************************************************************)
StreamFilter == [suppressing |-> FALSE, cursor |-> 0, pending |-> <<>>]

\* The longest proper prefix of pat[1..c] that is also its suffix.
Border(pat, c) ==
    LET ks == {k \in 0..(c - 1) : Take(pat, k) = SubSeq(pat, c - k + 1, c)}
    IN  CHOOSE k \in ks : \A j \in ks : j <= k

\* The match cursor after byte b, from cursor c < Len(pat): the longest prefix
\* of pat that ends the bytes seen so far.
RECURSIVE Advance(_, _, _)
Advance(pat, c, b) ==
    IF pat[c + 1] = b THEN c + 1
    ELSE IF c = 0 THEN 0
    ELSE Advance(pat, Border(pat, c), b)

\* One byte through the filter: the new state and the bytes made visible.
FilterByte(f, b) ==
    IF f.suppressing
    THEN LET k == Advance(resume_marker, f.cursor, b)
         IN  IF k = Len(resume_marker)
             THEN [state |-> StreamFilter, out |-> <<>>]
             ELSE [state |-> [f EXCEPT !.cursor = k], out |-> <<>>]
    ELSE LET held == f.pending \o <<b>>
             k == Advance(hidden_prefix, f.cursor, b)
         IN  IF k = Len(hidden_prefix)
             THEN [state |-> [suppressing |-> TRUE, cursor |-> 0, pending |-> <<>>],
                   out |-> Take(held, Len(held) - k)]
             ELSE [state |-> [suppressing |-> FALSE, cursor |-> k,
                              pending |-> Last(held, k)],
                   out |-> Take(held, Len(held) - k)]

\* consume(chunk): the chunk's bytes through the filter, one after another.
\* FilterRest is the result r of the bytes so far followed by the bytes left;
\* Filter binds r and the bytes left as values, so that each byte's step is
\* computed once.
RECURSIVE Filter(_, _)
FilterRest(r, rest) ==
    LET t == Filter(r.state, rest)
    IN  [state |-> t.state, out |-> r.out \o t.out]

Filter(f, data) ==
    IF data = <<>>
    THEN [state |-> f, out |-> <<>>]
    ELSE CHOOSE res \in {FilterRest(r, rest) : r \in {FilterByte(f, Head(data))},
                                               rest \in {Tail(data)}} : TRUE

\* flush_on_timeout(): releases what is provisionally withheld; a confirmed
\* suppression stays.
Timeout(f) ==
    IF f.suppressing
    THEN [state |-> f, out |-> <<>>]
    ELSE [state |-> StreamFilter, out |-> f.pending]

(***************************************************************************)
(* The state.                                                              *)
(***************************************************************************)
VARIABLES
    pc,             \* the statement of __init__ / _process the main flow is at
    server_address, \* whether a socket path was given (line 31)
    path,           \* what is at the socket path: absent, stale, live, locked, ours
    master_fd,      \* self.master_fd: unset, open, closed (line 68), None (line 69)
    handler,        \* the SIGWINCH disposition: old or proxy (lines 53, 70)
    sigPending,     \* a SIGWINCH is delivered and its Python handler not yet run
    frames,         \* the active _set_pty_size calls, innermost first
    mode,           \* the snapshot of tcgetattr (line 56), or none
    termMode,       \* the real terminal's mode
    termSize,       \* the real terminal's window size
    stdoutTty,      \* whether descriptor 1 is a terminal (TIOCGWINSZ works on it)
    ptySize,        \* the child pty's window size
    lastQueried,    \* the terminal size the last completed _set_pty_size had read
    filter,         \* self.filter
    rfds,           \* the descriptors select reported ready (line 95)
    wr,             \* the running _write call: fd, data left, and what it started with
    script,         \* what the child will print in this session
    pos,            \* how many bytes of it _process has read
    eos,            \* how the child's end-of-stream was reported: none, empty, error
    flushed,        \* timeout flushes so far: no, mid (before the end of the output), final
    termOut,        \* the bytes written to the terminal (descriptor 1)
    childIn,        \* the bytes written to the child (master_fd)
    handled,        \* the keyboard chunks and payloads read so far, concatenated
    keysLeft,       \* keyboard chunks the user may still type; -1: no limit
    payloadsLeft,   \* datagrams the controller may still send; -1: no limit
    occupied,       \* another process's socket was bound to the path at the start
    served,         \* the descriptors read since select last returned, in order
    produced,       \* bytes of its script the child has written into the pty
    consumed,       \* bytes of childIn the child has read from the pty
    raised          \* the statement that raised the last exception, or none

vars == <<pc, server_address, path, master_fd, handler, sigPending, frames, mode,
          termMode, termSize, stdoutTty, ptySize, lastQueried, filter, rfds, wr,
          script, pos, eos, flushed, termOut, childIn, handled, keysLeft,
          payloadsLeft, occupied, served, produced, consumed, raised>>

\* The groups of variables an action leaves alone.
envVars == <<server_address, stdoutTty, script, occupied>>
sockVars == <<path>>
ttyVars == <<mode, termMode>>
sizeVars == <<termSize, ptySize, lastQueried>>
sigVars == <<handler, sigPending, frames>>
childVars == <<pos, eos>>
outVars == <<termOut, childIn>>
inVars == <<handled, keysLeft, payloadsLeft>>
\* The child's side of the pty.  Only the specification with bounded queues
\* follows it; elsewhere the queues take whatever is written.
ptyVars == <<produced, consumed>>

(***************************************************************************)
(* The environment's inputs.                                               *)
(***************************************************************************)
\* The terminal modes a session may start in.
OrigModes == {"cooked", "cbreak"}

\* Window sizes <<rows, columns>>; a fresh pty has <<0, 0>>.
WinSizes == {<<24, 80>>, <<40, 120>>}
NoSize == <<0, 0>>

\* Chunks a read of the keyboard returns, and datagrams of the controller.
KeyChunks == {<<"k">>, <<"l", "m", "n">>}
Payloads == {<<"p", "q">>}

\* A script: the child prints x, or x, a hidden command, y, the prompt, and z.
Stream(sc) ==
    IF sc.hidden
    THEN sc.x \o hidden_prefix \o sc.y \o resume_marker \o sc.z
    ELSE sc.x

\* The scripts of the filter's specification.
FilterScripts ==
    {[hidden |-> TRUE, x |-> x, y |-> y, z |-> z] :
        x \in SeqsUpTo({"s", "x"}, MaxX),
        y \in {<<"c">>, <<"\n", "(">>},
        z \in SeqsUpTo({"s", "x"}, MaxZ)}
    \cup {[hidden |-> FALSE, x |-> x, y |-> <<>>, z |-> <<>>] :
            x \in SeqsUpTo({"s", "x"}, MaxX)}

\* The scripts of the session's specification: short, no hidden command.
PlainScripts ==
    {[hidden |-> FALSE, x |-> x, y |-> <<>>, z |-> <<>>] :
        x \in {<<"x">>, <<"s", "e">>}}

\* No _write call is running.  Of a running call: the descriptor, the data
\* left, and for the record the data it was called with, how much the
\* descriptor had received before, and the os.write calls made.
NoWrite ==
    [fd |-> "none", data |-> <<>>, orig |-> <<>>, base |-> 0, calls |-> 0,
     ret |-> "none"]

\* The statements inside the try block of lines 61-64.
LoopPcs == {"select", "timeout", "master", "stdin", "sock", "write"}
\* The statements after which the process is gone.
EndPcs == {"done", "crashed", "killed"}

\* What a descriptor has received.
Out(fd) == IF fd = STDOUT THEN termOut ELSE childIn

(***************************************************************************)
(* Exceptions.  One raised inside _process is caught at line 63 and the    *)
(* flow goes on at line 66; one raised elsewhere in __init__ ends the      *)
(* process with a traceback and runs nothing more of __init__.  Either way *)
(* the frames of the calls under way are left.                             *)
(***************************************************************************)
Raised ==
    /\ pc' = IF pc \in LoopPcs THEN "restore" ELSE "crashed"
    /\ frames' = <<>>
    /\ wr' = NoWrite
    /\ rfds' = {}
    /\ served' = <<>>

\* The statement what raises.
Raise(what) == Raised /\ raised' = what

(***************************************************************************)
(* __init__, lines 31-59: the setup.                                       *)
(***************************************************************************)
\* Lines 31-43: unlink what is at the path, create the socket and bind it.
\* os.unlink removes a socket file whether or not a process is bound to it.
Bind ==
    /\ pc = "bind" /\ frames = <<>>
    /\ server_address => path # "locked"
    /\ path' = IF server_address THEN "ours" ELSE path
    /\ pc' = "fork"
    /\ UNCHANGED <<envVars, ptyVars, served, master_fd, sigVars, ttyVars, sizeVars, filter, rfds, wr,
                   childVars, flushed, outVars, inVars, raised>>

\* Lines 34-37: os.unlink fails on a path that exists (a directory, or a file
\* in a directory the user may not write): the OSError is raised again.
BindFail ==
    /\ pc = "bind" /\ frames = <<>>
    /\ server_address /\ path = "locked"
    /\ Raise("bind")
    /\ UNCHANGED <<envVars, ptyVars, sockVars, master_fd, handler, sigPending, ttyVars, sizeVars,
                   filter, childVars, flushed, outVars, inVars>>

\* Line 49: pty.fork() raises OSError (no pty or no process is to be had).
ForkFail ==
    /\ pc = "fork" /\ frames = <<>>
    /\ Raise("fork")
    /\ UNCHANGED <<envVars, ptyVars, sockVars, master_fd, handler, sigPending, ttyVars, sizeVars,
                   filter, childVars, flushed, outVars, inVars>>

\* Line 56: tcgetattr raises termios.error (descriptor 0 is not a terminal).
TcGetAttrFail ==
    /\ pc = "tcgetattr" /\ frames = <<>>
    /\ Raise("tcgetattr")
    /\ UNCHANGED <<envVars, ptyVars, sockVars, master_fd, handler, sigPending, ttyVars, sizeVars,
                   filter, childVars, flushed, outVars, inVars>>

\* Lines 45-51: create the filter; pty.fork() gives the master descriptor.
Fork ==
    /\ pc = "fork" /\ frames = <<>>
    /\ filter' = StreamFilter
    /\ master_fd' = "open"
    /\ pc' = "signal"
    /\ UNCHANGED <<envVars, ptyVars, served, sockVars, sigVars, ttyVars, sizeVars, rfds, wr,
                   childVars, flushed, outVars, inVars, raised>>

\* Lines 53-54: install the SIGWINCH handler.
InstallHandler ==
    /\ pc = "signal" /\ frames = <<>>
    /\ handler' = "proxy"
    /\ pc' = "tcgetattr"
    /\ UNCHANGED <<envVars, ptyVars, served, sockVars, master_fd, sigPending, frames, ttyVars, sizeVars,
                   filter, rfds, wr, childVars, flushed, outVars, inVars, raised>>

\* Line 56: mode = tty.tcgetattr(pty.STDIN_FILENO).
TcGetAttr ==
    /\ pc = "tcgetattr" /\ frames = <<>>
    /\ mode' = termMode
    /\ pc' = "setraw"
    /\ UNCHANGED <<envVars, ptyVars, served, sockVars, master_fd, sigVars, termMode, sizeVars,
                   filter, rfds, wr, childVars, flushed, outVars, inVars, raised>>

\* Line 57: tty.setraw(pty.STDIN_FILENO).
SetRaw ==
    /\ pc = "setraw" /\ frames = <<>>
    /\ termMode' = "raw"
    /\ pc' = "ptysize"
    /\ UNCHANGED <<envVars, ptyVars, served, sockVars, master_fd, sigVars, mode, sizeVars,
                   filter, rfds, wr, childVars, flushed, outVars, inVars, raised>>

(***************************************************************************)
(* _set_pty_size, lines 79-85, called at line 59 and by the SIGWINCH       *)
(* handler.  A call is a frame: the assertion and TIOCGWINSZ on entry,     *)
(* TIOCSWINSZ on leaving.                                                  *)
(***************************************************************************)
\* Line 84 reading the size of the pty instead of the terminal's.
GetWinSize_of_pty == ptySize

\* Line 84: the window size TIOCGWINSZ reads from descriptor 1.
GetWinSize == termSize

\* The frame of a call that has passed lines 81-84.
Frame(who) == [who |-> who, buf |-> GetWinSize, queried |-> termSize]

\* Lines 81-84 of a call: the assertion, then the ioctl on descriptor 1.
EnterSetPtySize(who) ==
    IF master_fd = "None" \/ ~stdoutTty
    THEN Raise(who) /\ UNCHANGED <<ptySize, lastQueried>>
    ELSE /\ frames' = <<Frame(who)>> \o frames
         /\ UNCHANGED <<pc, wr, rfds, served, ptySize, lastQueried, raised>>

\* Line 59: the call of the main flow.
CallSetPtySize ==
    /\ pc = "ptysize" /\ frames = <<>>
    /\ EnterSetPtySize("main")
    /\ UNCHANGED <<envVars, ptyVars, sockVars, master_fd, handler, sigPending, ttyVars, termSize,
                   filter, childVars, flushed, outVars, inVars>>

\* The handler of lines 53-54 starts for a delivered SIGWINCH.
SigwinchHandler ==
    /\ pc \notin EndPcs
    /\ sigPending /\ handler = "proxy"
    /\ Cardinality({i \in 1..Len(frames) : frames[i].who = "sig"}) < MaxNest
    /\ sigPending' = FALSE
    /\ EnterSetPtySize("sig")
    /\ UNCHANGED <<envVars, ptyVars, sockVars, master_fd, handler, ttyVars, termSize,
                   filter, childVars, flushed, outVars, inVars>>

\* Line 85: TIOCSWINSZ on the master descriptor, and the call returns.
_set_pty_size ==
    /\ frames # <<>>
    /\ IF master_fd = "open"
       THEN /\ ptySize' = Head(frames).buf
            /\ lastQueried' = Head(frames).queried
            /\ frames' = Tail(frames)
            /\ pc' = IF Head(frames).who = "main" THEN "select" ELSE pc
            /\ UNCHANGED <<wr, rfds, served, raised>>
       ELSE Raise(Head(frames).who) /\ UNCHANGED <<ptySize, lastQueried>>
    /\ UNCHANGED <<envVars, ptyVars, sockVars, master_fd, handler, sigPending, ttyVars, termSize,
                   filter, childVars, flushed, outVars, inVars>>

\* The user resizes the window: the kernel delivers SIGWINCH to the process.
WindowChanged ==
    /\ pc \notin EndPcs
    /\ \E size \in WinSizes \ {termSize} : termSize' = size
    /\ sigPending' = (sigPending \/ handler = "proxy")
    /\ UNCHANGED <<pc, envVars, ptyVars, served, sockVars, master_fd, handler, frames, ttyVars, ptySize,
                   lastQueried, filter, rfds, wr, childVars, flushed, outVars, inVars, raised>>

\* SIGINT raises KeyboardInterrupt, which line 63 does not catch; SIGTERM and
\* SIGHUP end the process at once.
Killed ==
    /\ pc \notin EndPcs
    /\ \E sig \in {"SIGINT", "SIGTERM"} :
          pc' = IF sig = "SIGINT" THEN "crashed" ELSE "killed"
    /\ frames' = <<>> /\ wr' = NoWrite /\ rfds' = {} /\ sigPending' = FALSE
    /\ served' = <<>>
    /\ UNCHANGED <<envVars, ptyVars, sockVars, master_fd, handler, ttyVars, sizeVars,
                   filter, childVars, flushed, outVars, inVars, raised>>

(***************************************************************************)
(* _write, lines 116-120.                                                  *)
(***************************************************************************)
\* Line 120 cutting one byte too many.
Remainder_off_by_one(data, n) == Drop(data, n + 1)

\* Line 120: data = data[n:].
Remainder(data, n) == Drop(data, n)

\* The call _write(fd, data); ret is the statement the caller goes on with.
Call_write(fd, data, ret) ==
    /\ pc' = "write"
    /\ wr' = [fd |-> fd, data |-> data, orig |-> data, base |-> Len(Out(fd)),
              calls |-> 0, ret |-> ret]

\* The record of what was read for the child and what it was sent (handled,
\* childIn) is kept while the input is limited, so that the state stays finite.
Recording == keysLeft >= 0 /\ payloadsLeft >= 0

\* os.write(fd, data) accepting n bytes.
os_write(fd, data, n) ==
    /\ termOut' = IF fd = STDOUT THEN termOut \o Take(data, n) ELSE termOut
    /\ childIn' = IF fd = MASTER /\ Recording THEN childIn \o Take(data, n) ELSE childIn

\* Line 118 with no data left: the call returns.
WriteReturn ==
    /\ pc = "write" /\ frames = <<>>
    /\ wr.data = <<>>
    /\ pc' = wr.ret
    /\ wr' = NoWrite
    /\ rfds' = IF wr.ret = "select" THEN {} ELSE rfds
    /\ served' = IF wr.ret = "select" THEN <<>> ELSE served
    /\ UNCHANGED <<envVars, ptyVars, sockVars, master_fd, sigVars, ttyVars, sizeVars, filter,
                   childVars, flushed, outVars, inVars, raised>>

\* Lines 119-120 going back to the loop after one os.write, the rest kept
\* for later.
WriteAccepting_once(n) ==
    /\ pc = "write" /\ frames = <<>>
    /\ wr.data # <<>>
    /\ os_write(wr.fd, wr.data, n)
    /\ wr' = [wr EXCEPT !.data = Remainder(wr.data, n), !.calls = @ + 1]
    /\ pc' = wr.ret
    /\ UNCHANGED <<envVars, ptyVars, served, sockVars, master_fd, sigVars, ttyVars, sizeVars,
                   filter, rfds, childVars, flushed, inVars, raised>>

\* Lines 119-120 with os.write accepting n bytes.
WriteAccepting(n) ==
    /\ pc = "write" /\ frames = <<>>
    /\ wr.data # <<>>
    /\ os_write(wr.fd, wr.data, n)
    /\ wr' = [wr EXCEPT !.data = Remainder(wr.data, n), !.calls = @ + 1]
    /\ UNCHANGED <<pc, envVars, ptyVars, served, sockVars, master_fd, sigVars, ttyVars, sizeVars, filter,
                   rfds, childVars, flushed, inVars, raised>>

\* Lines 119-120: the system accepts between one and all of the bytes left.
WriteSome == \E n \in 1..Len(wr.data) : WriteAccepting(n)

\* Lines 119-120 on a descriptor that accepts every write whole.
WriteWhole == WriteAccepting(Len(wr.data))

\* Line 119: os.write raises OSError.
WriteFail ==
    /\ pc = "write" /\ frames = <<>>
    /\ wr.data # <<>>
    /\ Raise("write")
    /\ UNCHANGED <<envVars, ptyVars, sockVars, master_fd, handler, sigPending, ttyVars, sizeVars,
                   filter, childVars, flushed, outVars, inVars>>

_write == WriteReturn \/ WriteSome \/ WriteFail

(***************************************************************************)
(* The callbacks, lines 122-141.                                           *)
(***************************************************************************)
\* write_stdout writing the chunk as it was read, not what the filter returned.
write_stdout_unfiltered(data, ret) ==
    LET r == Filter(filter, data)
    IN  /\ filter' = r.state
        /\ Call_write(STDOUT, data, ret)

\* write_stdout filtering every chunk with a filter of its own.
write_stdout_fresh(data, ret) ==
    LET r == Filter(StreamFilter, data)
    IN  /\ filter' = r.state
        /\ Call_write(STDOUT, r.out, ret)

\* Lines 126-129.
write_stdout(data, ret) ==
    LET r == Filter(filter, data)
    IN  /\ filter' = r.state
        /\ Call_write(STDOUT, r.out, ret)

\* Lines 131-133.
write_master(data, ret) ==
    /\ filter' = filter
    /\ Call_write(MASTER, data, ret)

\* Lines 135-137.
master_read(data, ret) == write_stdout(data, ret)

\* stdin_read handing the keyboard's bytes to write_stdout.
stdin_read_to_stdout(data, ret) == write_stdout(data, ret)

\* Lines 139-141.
stdin_read(data, ret) == write_master(data, ret)

\* _timeout writing what the filter released to the child, not the terminal.
_timeout_to_master ==
    /\ pc = "timeout" /\ frames = <<>>
    /\ LET r == Timeout(filter)
       IN  /\ filter' = r.state
           /\ Call_write(MASTER, r.out, "select")
    /\ flushed' = IF pos < Len(Stream(script)) THEN "mid"
                  ELSE IF flushed = "no" THEN "final" ELSE flushed
    /\ UNCHANGED <<envVars, ptyVars, served, sockVars, master_fd, sigVars, ttyVars, sizeVars, rfds,
                   childVars, outVars, inVars, raised>>

\* _timeout flushing the filter and writing nothing of what it released.
_timeout_discards ==
    /\ pc = "timeout" /\ frames = <<>>
    /\ LET r == Timeout(filter)
       IN  /\ filter' = r.state
           /\ Call_write(STDOUT, <<>>, "select")
    /\ flushed' = IF pos < Len(Stream(script)) THEN "mid"
                  ELSE IF flushed = "no" THEN "final" ELSE flushed
    /\ UNCHANGED <<envVars, ptyVars, served, sockVars, master_fd, sigVars, ttyVars, sizeVars, rfds,
                   childVars, outVars, inVars, raised>>

\* _timeout starting the filter afresh after the flush.
_timeout_new_filter ==
    /\ pc = "timeout" /\ frames = <<>>
    /\ LET r == Timeout(filter)
       IN  /\ filter' = StreamFilter
           /\ Call_write(STDOUT, r.out, "select")
    /\ flushed' = IF pos < Len(Stream(script)) THEN "mid"
                  ELSE IF flushed = "no" THEN "final" ELSE flushed
    /\ UNCHANGED <<envVars, ptyVars, served, sockVars, master_fd, sigVars, ttyVars, sizeVars, rfds,
                   childVars, outVars, inVars, raised>>

\* Lines 122-124, called at line 104.
_timeout ==
    /\ pc = "timeout" /\ frames = <<>>
    /\ LET r == Timeout(filter)
       IN  /\ filter' = r.state
           /\ Call_write(STDOUT, r.out, "select")
    /\ flushed' = IF pos < Len(Stream(script)) THEN "mid"
                  ELSE IF flushed = "no" THEN "final" ELSE flushed
    /\ UNCHANGED <<envVars, ptyVars, served, sockVars, master_fd, sigVars, ttyVars, sizeVars, rfds,
                   childVars, outVars, inVars, raised>>

(***************************************************************************)
(* _process, lines 87-114.                                                 *)
(***************************************************************************)
\* Lines 89-91: the descriptors select waits for.
sockets == {MASTER, STDIN} \cup (IF server_address THEN {SOCK} ELSE {})

\* The descriptors that may be readable now: the master (output, or the
\* child's end), the keyboard while the user still types, the socket while the
\* controller still sends.
Readable ==
    {MASTER} \cup (IF keysLeft # 0 THEN {STDIN} ELSE {})
             \cup (IF payloadsLeft # 0 THEN {SOCK} ELSE {})

\* Lines 106-114 testing for the master only.
NextStage_master_only(r, done) ==
    IF done < 1 /\ MASTER \in r THEN "master" ELSE "select"

\* Lines 106-114: the next of the three tests, in their order, that finds its
\* descriptor in rfds; after the last the loop is back at line 95.
NextStage(r, done) ==
    IF done < 1 /\ MASTER \in r THEN "master"
    ELSE IF done < 2 /\ STDIN \in r THEN "stdin"
    ELSE IF done < 3 /\ SOCK \in r THEN "sock"
    ELSE "select"

\* Line 95 returns some descriptors ready.  Once the child's end was read as
\* an empty string the master stays readable.
SelectReady ==
    /\ pc = "select" /\ frames = <<>>
    /\ \E r \in SUBSET (sockets \cap Readable) :
          /\ r # {}
          /\ eos # "none" => MASTER \in r
          /\ rfds' = r
          /\ pc' = NextStage(r, 0)
    /\ UNCHANGED <<envVars, ptyVars, served, sockVars, master_fd, sigVars, ttyVars, sizeVars, filter, wr,
                   childVars, flushed, outVars, inVars, raised>>

\* Line 95 returns nothing ready after 1.0 s: line 104.
SelectTimeout ==
    /\ pc = "select" /\ frames = <<>>
    /\ eos = "none"
    /\ rfds' = {}
    /\ pc' = "timeout"
    /\ UNCHANGED <<envVars, ptyVars, served, sockVars, master_fd, sigVars, ttyVars, sizeVars, filter, wr,
                   childVars, flushed, outVars, inVars, raised>>

\* The errors select raises at line 95: the wait was interrupted by a signal
\* (an interpreter before 3.5 reports it; a later one resumes the wait by
\* itself, which is no step of the program), or a descriptor is bad.
SelectErrnos == {"EINTR", "EBADF"}

\* Lines 97-101: line 95 raises select.error e.  Under Python 3 select.error
\* is OSError, which has no item 0: e[0] at line 98 raises TypeError, whatever
\* e is, and the loop is left.  (Where e[0] is the error number, line 98
\* compares it with EAGAIN, which none of select's errors is: line 101.)
SelectError ==
    /\ pc = "select" /\ frames = <<>>
    /\ \E e \in SelectErrnos : Raise(e)
    /\ UNCHANGED <<envVars, ptyVars, sockVars, master_fd, handler, sigPending, ttyVars, sizeVars,
                   filter, childVars, flushed, outVars, inVars>>

\* Lines 106-108, output left: os.read returns between one and ReadSize bytes.
MasterData ==
    /\ pc = "master" /\ frames = <<>>
    /\ pos < Len(Stream(script))
    /\ \E n \in 1..Min(Len(Stream(script)) - pos, ReadSize) :
          /\ master_read(SubSeq(Stream(script), pos + 1, pos + n), NextStage(rfds, 1))
          /\ pos' = pos + n
    /\ served' = Append(served, MASTER)
    /\ UNCHANGED <<envVars, ptyVars, sockVars, master_fd, sigVars, ttyVars, sizeVars, rfds, eos,
                   flushed, outVars, inVars, raised>>

\* Lines 106-108, the child is gone and os.read returns the empty string.
MasterEmpty ==
    /\ pc = "master" /\ frames = <<>>
    /\ pos = Len(Stream(script))
    /\ eos' = "empty"
    /\ master_read(<<>>, NextStage(rfds, 1))
    /\ served' = Append(served, MASTER)
    /\ UNCHANGED <<envVars, ptyVars, sockVars, master_fd, sigVars, ttyVars, sizeVars, rfds, pos,
                   flushed, outVars, inVars, raised>>

\* Line 107, the child is gone and os.read raises OSError (EIO).
MasterError ==
    /\ pc = "master" /\ frames = <<>>
    /\ pos = Len(Stream(script))
    /\ eos' = "error"
    /\ Raise("read")
    /\ UNCHANGED <<envVars, ptyVars, sockVars, master_fd, handler, sigPending, ttyVars, sizeVars,
                   filter, pos, flushed, outVars, inVars>>

\* Lines 109-111.
StdinRead ==
    /\ pc = "stdin" /\ frames = <<>>
    /\ \E data \in KeyChunks :
          /\ handled' = IF Recording THEN handled \o data ELSE handled
          /\ stdin_read(data, NextStage(rfds, 2))
    /\ keysLeft' = IF keysLeft > 0 THEN keysLeft - 1 ELSE keysLeft
    /\ served' = Append(served, STDIN)
    /\ UNCHANGED <<envVars, ptyVars, sockVars, master_fd, sigVars, ttyVars, sizeVars, rfds,
                   childVars, flushed, outVars, payloadsLeft, raised>>

\* Lines 112-114.
SockRecv ==
    /\ pc = "sock" /\ frames = <<>>
    /\ \E data \in Payloads :
          /\ handled' = IF Recording THEN handled \o data ELSE handled
          /\ write_master(data, NextStage(rfds, 3))
    /\ payloadsLeft' = IF payloadsLeft > 0 THEN payloadsLeft - 1 ELSE payloadsLeft
    /\ served' = Append(served, SOCK)
    /\ UNCHANGED <<envVars, ptyVars, sockVars, master_fd, sigVars, ttyVars, sizeVars, rfds,
                   childVars, flushed, outVars, keysLeft, raised>>

_process ==
    \/ SelectReady \/ SelectTimeout \/ SelectError
    \/ MasterData \/ MasterEmpty \/ MasterError
    \/ StdinRead \/ SockRecv
    \/ _timeout \/ _write

(***************************************************************************)
(* __init__, lines 66-77: the teardown.                                    *)
(***************************************************************************)
\* Line 66: tty.tcsetattr(pty.STDIN_FILENO, tty.TCSAFLUSH, mode).
Restore ==
    /\ pc = "restore" /\ frames = <<>>
    /\ termMode' = mode
    /\ pc' = "close"
    /\ UNCHANGED <<envVars, ptyVars, served, sockVars, master_fd, sigVars, mode, sizeVars, filter, rfds,
                   wr, childVars, flushed, outVars, inVars, raised>>

\* Line 68: os.close(self.master_fd).
Close ==
    /\ pc = "close" /\ frames = <<>>
    /\ master_fd' = "closed"
    /\ pc' = "unset"
    /\ UNCHANGED <<envVars, ptyVars, served, sockVars, sigVars, ttyVars, sizeVars, filter, rfds,
                   wr, childVars, flushed, outVars, inVars, raised>>

\* Line 69: self.master_fd = None.
Unset ==
    /\ pc = "unset" /\ frames = <<>>
    /\ master_fd' = "None"
    /\ pc' = "sigrestore"
    /\ UNCHANGED <<envVars, ptyVars, served, sockVars, sigVars, ttyVars, sizeVars, filter, rfds,
                   wr, childVars, flushed, outVars, inVars, raised>>

\* Line 70: signal.signal(signal.SIGWINCH, old_handler).
RestoreHandler ==
    /\ pc = "sigrestore" /\ frames = <<>>
    /\ handler' = "old"
    /\ sigPending' = FALSE
    /\ pc' = "cleanup"
    /\ UNCHANGED <<envVars, ptyVars, served, sockVars, master_fd, frames, ttyVars, sizeVars, filter, rfds,
                   wr, childVars, flushed, outVars, inVars, raised>>

\* Lines 72-77: unlink the socket path.
Cleanup ==
    /\ pc = "cleanup" /\ frames = <<>>
    /\ path' = IF server_address THEN "absent" ELSE path
    /\ pc' = "done"
    /\ UNCHANGED <<envVars, ptyVars, served, master_fd, sigVars, ttyVars, sizeVars, filter, rfds,
                   wr, childVars, flushed, outVars, inVars, raised>>

(***************************************************************************)
(* The pty between the proxy and the child, with queues of MaxBuf bytes in *)
(* each direction, and a child that writes the output it has before it     *)
(* reads its input again.  The descriptors are blocking: a read or write   *)
(* that cannot be served waits.                                            *)
(***************************************************************************)
\* Bytes written to the master that the child has not read yet.
InQueue == Len(childIn) - consumed

\* Bytes the child has written that line 107 has not read yet.
OutQueue == produced - pos

\* The child writes a byte of its output; it waits while the queue is full.
ChildWrite ==
    /\ pc \in LoopPcs
    /\ produced < Len(Stream(script))
    /\ OutQueue < MaxBuf
    /\ produced' = produced + 1
    /\ UNCHANGED <<pc, envVars, served, sockVars, master_fd, sigVars, ttyVars, sizeVars, filter,
                   rfds, wr, childVars, flushed, outVars, inVars, consumed, raised>>

\* The child, with no output left to write, reads what is in its input queue.
ChildRead ==
    /\ pc \in LoopPcs
    /\ produced = Len(Stream(script))
    /\ InQueue > 0
    /\ consumed' = Len(childIn)
    /\ UNCHANGED <<pc, envVars, served, sockVars, master_fd, sigVars, ttyVars, sizeVars, filter,
                   rfds, wr, childVars, flushed, outVars, inVars, produced, raised>>

\* Line 95: the master is reported ready exactly when its queue holds bytes.
PtySelectReady == SelectReady /\ (MASTER \in rfds' <=> OutQueue > 0)

\* Line 95 times out: nothing was ready for a second.
PtySelectTimeout == SelectTimeout /\ OutQueue = 0

\* Line 107: os.read returns bytes of the queue.
PtyMasterData == MasterData /\ pos' <= produced

\* Lines 119-120: os.write on the master accepts what the queue has room
\* for, and waits while it has none; the terminal takes every write.
PtyWrite ==
    \E n \in 1..Len(wr.data) :
        /\ wr.fd = MASTER => InQueue + n <= MaxBuf
        /\ WriteAccepting(n)

\* Lines 144-154: what the caller of the script sees.  __init__ returning is
\* the interpreter's exit with status 0; an exception leaving __init__ is a
\* traceback and status 1; a process a signal ended has no status 0 either.
ExitStatus == IF pc = "done" THEN 0 ELSE 1

(***************************************************************************)
(* The specifications.                                                     *)
(***************************************************************************)
\* What no session has touched yet.
Fresh ==
    /\ frames = <<>> /\ sigPending = FALSE
    /\ filter = StreamFilter
    /\ rfds = {} /\ wr = NoWrite
    /\ pos = 0 /\ eos = "none" /\ flushed = "no"
    /\ termOut = <<>> /\ childIn = <<>> /\ handled = <<>>
    /\ raised = "none"
    /\ served = <<>>
    /\ produced = 0 /\ consumed = 0

\* What may be at the socket path when the process starts: nothing, a file
\* that a session left behind, the socket of a process that is bound to it,
\* or something that cannot be unlinked.
PathStates == {"absent", "stale", "live", "locked"}

\* The process starts: line 31.
Init ==
    /\ Fresh
    /\ pc = "bind"
    /\ server_address \in BOOLEAN
    /\ path \in IF server_address THEN PathStates ELSE {"absent"}
    /\ occupied = (path = "live")
    /\ master_fd = "unset"
    /\ handler = "old"
    /\ mode = "none"
    /\ termMode \in OrigModes
    /\ termSize = <<24, 80>>
    /\ stdoutTty \in BOOLEAN
    /\ ptySize = NoSize /\ lastQueried = NoSize
    /\ script \in PlainScripts
    /\ keysLeft = -1
    /\ payloadsLeft = IF server_address THEN -1 ELSE 0

Next ==
    \/ Bind \/ Fork \/ InstallHandler \/ TcGetAttr \/ SetRaw \/ CallSetPtySize
    \/ BindFail \/ ForkFail \/ TcGetAttrFail
    \/ SigwinchHandler \/ _set_pty_size \/ WindowChanged \/ Killed
    \/ _process
    \/ Restore \/ Close \/ Unset \/ RestoreHandler \/ Cleanup

Spec == Init /\ [][Next]_vars

\* The session at its first select (line 95), with no control socket, a
\* keyboard nobody types on, a window nobody resizes and a terminal that
\* accepts every write whole: the child's output and the filter alone.
InitFilter ==
    /\ Fresh
    /\ pc = "select"
    /\ server_address = FALSE /\ path = "absent" /\ occupied = FALSE
    /\ master_fd = "open"
    /\ handler = "proxy"
    /\ mode = "cooked" /\ termMode = "raw"
    /\ termSize = <<24, 80>> /\ stdoutTty = TRUE
    /\ ptySize = termSize /\ lastQueried = termSize
    /\ script \in FilterScripts
    /\ keysLeft = 0 /\ payloadsLeft = 0

NextFilter ==
    \/ SelectReady \/ SelectTimeout
    \/ MasterData \/ MasterEmpty \/ MasterError
    \/ _timeout \/ WriteReturn \/ WriteWhole

SpecFilter == InitFilter /\ [][NextFilter]_vars

\* The session at its first select, with a control socket, a user who types
\* at most MaxKeys chunks, a controller that sends at most MaxPayloads
\* datagrams, and a window nobody resizes: the loop and its three sources.
InitInput ==
    /\ Fresh
    /\ pc = "select"
    /\ server_address = TRUE /\ path = "ours" /\ occupied = FALSE
    /\ master_fd = "open"
    /\ handler = "proxy"
    /\ mode = "cooked" /\ termMode = "raw"
    /\ termSize = <<24, 80>> /\ stdoutTty = TRUE
    /\ ptySize = termSize /\ lastQueried = termSize
    /\ script \in PlainScripts
    /\ keysLeft = MaxKeys /\ payloadsLeft = MaxPayloads

SpecInput == InitInput /\ [][_process]_vars

\* The session at its first select, with no control socket and a window
\* nobody resizes; the user types at most MaxKeys chunks, or without limit.
\* The process keeps running: a step that can be taken is taken.
InitLive ==
    /\ Fresh
    /\ pc = "select"
    /\ server_address = FALSE /\ path = "absent" /\ occupied = FALSE
    /\ master_fd = "open"
    /\ handler = "proxy"
    /\ mode = "cooked" /\ termMode = "raw"
    /\ termSize = <<24, 80>> /\ stdoutTty = TRUE
    /\ ptySize = termSize /\ lastQueried = termSize
    /\ script \in PlainScripts
    /\ keysLeft \in {-1, MaxKeys} /\ payloadsLeft = 0

NextLive ==
    \/ SelectReady \/ SelectTimeout \/ SelectError
    \/ MasterData \/ MasterEmpty \/ MasterError
    \/ StdinRead
    \/ _timeout \/ _write

SpecLive == InitLive /\ [][NextLive]_vars /\ WF_vars(NextLive)

\* The output of a child that answers a hidden command and prompts again.
PtyScript == [hidden |-> TRUE, x |-> <<>>, y |-> <<"c">>, z |-> <<>>]

\* The session at its first select, on a pty with bounded queues, with no
\* control socket and a user who types at most MaxKeys chunks; no call fails.
InitPty ==
    /\ Fresh
    /\ pc = "select"
    /\ server_address = FALSE /\ path = "absent" /\ occupied = FALSE
    /\ master_fd = "open"
    /\ handler = "proxy"
    /\ mode = "cooked" /\ termMode = "raw"
    /\ termSize = <<24, 80>> /\ stdoutTty = TRUE
    /\ ptySize = termSize /\ lastQueried = termSize
    /\ script = PtyScript
    /\ keysLeft = MaxKeys /\ payloadsLeft = 0

NextPty ==
    \/ PtySelectReady \/ PtySelectTimeout
    \/ PtyMasterData \/ StdinRead
    \/ _timeout \/ WriteReturn \/ PtyWrite
    \/ ChildWrite \/ ChildRead

SpecPty == InitPty /\ [][NextPty]_vars

(***************************************************************************)
(* The claims.                                                             *)
(***************************************************************************)

\* C1: whenever the process has ended after tcgetattr took its snapshot (and
\* so after any path that put the terminal into raw mode), the terminal's
\* mode is the snapshot's: the terminal is never left raw.
C1_TerminalNeverLeftRaw ==
    (pc \in EndPcs /\ mode # "none") => termMode = mode

\* C2: once a read of the master has reported the child's end-of-stream, as
\* an empty string or as an error, the loop does not come back to its wait
\* at line 95: it is left, and the teardown runs.
C2_LoopLeftAtEndOfStream ==
    eos # "none" => pc # "select"

\* The child's whole output has been read and filtered, and what the filter
\* returned is written (the loop is back at line 95).
Consumed == pc = "select" /\ pos = Len(Stream(script)) /\ eos = "none"

\* A script of the form x, hidden_prefix, y, resume_marker, z of the claim.
WellFormed(sc) ==
    /\ sc.hidden
    /\ ~Occurs(hidden_prefix, sc.x)
    /\ ~Occurs(resume_marker, sc.y)
    /\ ~Occurs(hidden_prefix, sc.z)

\* The longest end of s that is a beginning of hidden_prefix, and not all of it.
HeldTail(s) ==
    LET ks == {k \in 0..Min(Len(s), Len(hidden_prefix) - 1) :
                  Last(s, k) = Take(hidden_prefix, k)}
    IN  Last(s, CHOOSE k \in ks : \A j \in ks : j <= k)

\* C3 as stated: for output x, hidden_prefix, y, resume_marker, z read in any
\* chunks with no timeout flush in between, the bytes written to the terminal
\* are exactly x followed by z.
C3_VisibleIsXZ ==
    (WellFormed(script) /\ Consumed /\ flushed = "no")
        => termOut = script.x \o script.z

\* C3 as amended: with no timeout flush, the bytes written to the terminal
\* followed by the bytes the filter still withholds are x followed by z, the
\* withheld bytes being the longest end of z that begins hidden_prefix, and
\* the filter is not suppressing; after the one flush that follows, the bytes
\* written are exactly x followed by z.
C3_VisibleIsXZLessHeld ==
    /\ (WellFormed(script) /\ Consumed /\ flushed = "no")
          => /\ termOut \o filter.pending = script.x \o script.z
             /\ filter.pending = HeldTail(script.z)
             /\ ~filter.suppressing
    /\ (WellFormed(script) /\ Consumed /\ flushed = "final")
          => termOut = script.x \o script.z

\* C3's case: a whole hidden command was read with text before it, and the
\* text after the prompt ends with a beginning of hidden_prefix.
C3_Witness ==
    /\ WellFormed(script) /\ Consumed /\ flushed = "no"
    /\ script.x # <<>>
    /\ filter.pending # <<>>
    /\ Len(termOut) > Len(script.x)

\* What the filter makes visible of a stream given to it in one piece, the
\* final flush included.
Unsplit(stream) ==
    LET r == Filter(StreamFilter, stream)
    IN  r.out \o Timeout(r.state).out

\* C4: however the child's output was split into chunks, once it is read and
\* flushed the terminal has received what the unsplit output gives; and before
\* any flush the terminal has received, and the filter holds, exactly what one
\* call for all the bytes read so far gives, so that a marker split across
\* chunks is recognised and no byte of a partial match is written early.
C4_ChunkingIndependent ==
    /\ (Consumed /\ flushed = "final") => termOut = Unsplit(Stream(script))
    /\ (pc = "select" /\ flushed = "no")
          => LET r == Filter(StreamFilter, Take(Stream(script), pos))
             IN  termOut = r.out /\ filter = r.state

\* C4's case: a chunk ended inside the hidden prefix: its first bytes are
\* withheld, and the terminal has received the text before it and no more.
C4_Witness ==
    /\ pc = "select" /\ flushed = "no"
    /\ script.hidden /\ script.x # <<>>
    /\ Len(filter.pending) >= 2
    /\ pos = Len(script.x) + Len(filter.pending)
    /\ termOut = script.x

\* The bytes the terminal has received or is about to receive from the
\* running _write.
Visible ==
    termOut \o (IF pc = "write" /\ wr.fd = STDOUT THEN wr.data ELSE <<>>)

\* C5: a timeout flush of a filter that is not suppressing hands _write, for
\* the terminal, exactly the withheld bytes, which are the last bytes read
\* from the child; the filter then withholds nothing and a second flush
\* returns nothing; and when that _write returns the terminal has received
\* the bytes after what it had.
C5_FlushReleasesPartial ==
    /\ [][(pc = "timeout" /\ ~filter.suppressing /\ pc' = "write")
            => /\ filter.pending =
                     SubSeq(Stream(script), pos - Len(filter.pending) + 1, pos)
               /\ wr'.fd = STDOUT
               /\ wr'.data = filter.pending
               /\ filter'.pending = <<>>
               /\ Timeout(filter').out = <<>>]_vars
    /\ [][(pc = "write" /\ rfds = {} /\ pc' = "select")
            => termOut = Take(termOut, wr.base) \o wr.orig]_vars

\* C5's case: the write of a flush has delivered a withheld beginning of
\* hidden_prefix of two bytes or more.
C5_Witness ==
    /\ pc = "write" /\ rfds = {} /\ wr.data = <<>>
    /\ Len(wr.orig) >= 2 /\ IsPrefix(wr.orig, hidden_prefix)
    /\ wr.orig # hidden_prefix
    /\ Drop(termOut, wr.base) = wr.orig
    /\ filter = StreamFilter

\* C6: while the filter is suppressing, a timeout flush leaves it suppressing
\* and hands _write nothing; no step that leaves it suppressing makes a byte
\* visible; and only a read of the child ends the suppression.
C6_SuppressionSurvivesTimeout ==
    [][filter.suppressing
         => /\ pc = "timeout" => (filter'.suppressing /\ wr'.data = <<>>)
            /\ filter'.suppressing => Visible' = Visible
            /\ ~filter'.suppressing => (pc = "master" /\ pos' > pos)]_vars

\* C6's case: a timeout flush ran while the filter was suppressing, released
\* nothing, and its write is under way.
C6_Witness ==
    /\ filter.suppressing
    /\ pc = "write" /\ rfds = {}
    /\ flushed = "mid"
    /\ wr.orig = <<>>

\* The positions in the child's output at which a session may stand.
Positions == UNION {0..Len(Stream(sc)) : sc \in PlainScripts}

\* The filter withholds a beginning of hidden_prefix, with p bytes of the
\* child's output read.
Stalled(p) ==
    /\ pc \in LoopPcs /\ pos = p
    /\ ~filter.suppressing /\ filter.pending # <<>>

\* With still p bytes read, the filter withholds nothing, the loop is back at
\* its wait, and the terminal has received all p bytes.
Released(p) ==
    /\ pc = "select" /\ pos = p
    /\ filter.pending = <<>>
    /\ termOut = Take(Stream(script), p)

\* The child has printed more or has ended, or the loop is left.
Moved(p) == pos > p \/ eos # "none" \/ pc \notin LoopPcs

C8_WriteDeliversAll ==
    pc = "write"
        => /\ Drop(Out(wr.fd), wr.base) \o wr.data = wr.orig
           /\ wr.calls + Len(wr.data) <= Len(wr.orig)

\* C8's case: a _write of three bytes is at its return after two or more
\* partial os.write calls.
C8_Witness ==
    /\ pc = "write" /\ wr.data = <<>>
    /\ Len(wr.orig) = 3 /\ wr.calls >= 2
    /\ Drop(Out(wr.fd), wr.base) = wr.orig

\* The bytes the running _write still has for the child.
MasterPending ==
    IF pc = "write" /\ wr.fd = MASTER THEN wr.data ELSE <<>>

\* C9: inside the loop, what the child has received, followed by what the
\* running _write still has for it, is the concatenation of the keyboard
\* chunks and payloads in the order they were read; after the loop it is a
\* beginning of it; and handling the keyboard or the socket changes neither
\* the filter nor what the terminal has received.
C9_InputForwardedVerbatim ==
    /\ [](pc \in LoopPcs => childIn \o MasterPending = handled)
    /\ [](IsPrefix(childIn, handled))
    /\ [][(pc \in {"stdin", "sock"} \/ (pc = "write" /\ wr.fd = MASTER))
            => (filter' = filter /\ termOut' = termOut)]_vars

\* C9's case: a keyboard chunk of three bytes and a payload were forwarded
\* while the child printed.
C9_Witness ==
    /\ pc = "select"
    /\ payloadsLeft < MaxPayloads /\ keysLeft < MaxKeys
    /\ Len(handled) >= 5
    /\ childIn = handled
    /\ termOut # <<>>

C11_InterruptedWaitRetried ==
    [][(pc = "select" /\ raised = "none" /\ raised' \in SelectErrnos) =>
          IF raised' = "EINTR"
          THEN /\ pc' = "select"
               /\ UNCHANGED <<filter, pos, flushed, termOut, childIn, termMode,
                              master_fd>>
          ELSE pc' = "restore"]_vars

\* The descriptor-level failures that are neither an interrupted wait nor the
\* child's end-of-stream.
FatalIOErrors == {"write", "EBADF"}

\* C12: a session whose loop was left by a fatal I/O failure ends, after the
\* teardown, with a status that is not 0, and one whose loop was left by the
\* child's end-of-stream ends with status 0 unless something else went wrong
\* later: the caller can tell the two apart.
C12_FailureReported ==
    pc \in EndPcs =>
        /\ raised \in FatalIOErrors => ExitStatus # 0
        /\ (raised = "read" /\ pc = "done") => ExitStatus = 0

\* C13: with descriptor 1 a terminal, no run of the SIGWINCH handler fails,
\* and none is under way on a master descriptor that is closed or unset, at
\* whatever statement of __init__ the notification arrives while the handler
\* is installed.
C13_ResizeAlwaysSafe ==
    stdoutTty =>
        /\ raised # "sig"
        /\ \A i \in 1..Len(frames) : frames[i].who = "sig" => master_fd = "open"

\* The statements of the setup, lines 31-59, that may raise.
SetupFailures == {"bind", "fork", "tcgetattr", "main"}

\* C14: when the process has ended because a statement of the setup raised,
\* the socket path that bind created is not there.
C14_FailedSetupLeavesNothing ==
    (pc = "crashed" /\ raised \in SetupFailures) => path # "ours"

\* C17: a path another process's socket is bound to stays that process's, and
\* the startup ends there with the error of the bind step; a path that is
\* absent or stale is ours once the bind step is passed, until the cleanup;
\* and after a session that was given a path has run to its end the path is
\* absent.
C17_BindTellsStaleFromLive ==
    /\ occupied => path = "live"
    /\ (occupied /\ pc # "bind") => (pc = "crashed" /\ raised = "bind")
    /\ (server_address /\ ~occupied /\ pc \notin {"bind"} \cup EndPcs) => path = "ours"
    /\ (server_address /\ pc = "done") => path = "absent"

\* C15: the resources are taken in the order snapshot, raw mode, pty and
\* child, handler, and given back in the reverse order: so the handler is
\* installed only while the master descriptor is open, the master descriptor
\* is open only while the terminal is raw under a snapshot, and a session
\* that ran to its end holds none of them.
C15_AcquiredAndReleasedInOrder ==
    /\ handler = "proxy" => master_fd = "open"
    /\ master_fd = "open" => (mode # "none" /\ termMode = "raw")
    /\ pc = "done" => (handler = "old" /\ master_fd # "open" /\ termMode = mode)

\* The proxy waits inside os.write (line 119) for room in the child's input.
ProxyBlocked == pc = "write" /\ wr.fd = MASTER /\ wr.data # <<>> /\ InQueue = MaxBuf

\* The child waits inside its write for room in its output queue.
ChildBlocked == produced < Len(Stream(script)) /\ OutQueue = MaxBuf

\* C16: the proxy is never stopped for good inside an operation: it is never
\* waiting in _write for the child to read while the child is waiting in its
\* own write for the proxy to read.
C16_NeverBlockedForGood == ~(ProxyBlocked /\ ChildBlocked)

\* C18: while a chunk of the keyboard or a payload is being written to the
\* child, the child has received, in this order, all the chunks and payloads
\* read before it, whole, and a beginning of this one, with nothing in
\* between; and until its last byte is written (or the write fails) nothing
\* else is read and the child receives only bytes of it.
C18_ChunksStayContiguous ==
    /\ []((pc = "write" /\ wr.fd = MASTER) =>
            /\ Take(childIn, wr.base) \o wr.orig = handled
            /\ Drop(childIn, wr.base) \o wr.data = wr.orig)
    /\ [][(pc = "write" /\ wr.fd = MASTER /\ wr.data # <<>>) =>
            /\ handled' = handled
            /\ pc' \in {"write", "restore"}
            /\ IsPrefix(Drop(childIn', wr.base), wr.orig)]_vars

\* C18's case: after a payload or chunk was delivered whole, a chunk of three
\* bytes is part delivered, by one os.write, with bytes of it still to go.
C18_Witness ==
    /\ pc = "write" /\ wr.fd = MASTER
    /\ wr.base > 0 /\ Len(wr.orig) = 3
    /\ wr.calls = 1 /\ wr.data # <<>>
    /\ childIn = Take(handled, Len(handled) - Len(wr.data))

\* The ready descriptors r in the order of lines 106-114.
Ordered(r) == SelectSeq(<<MASTER, STDIN, SOCK>>, LAMBDA d : d \in r)

\* The descriptor the statement at pc reads.
ReadAt == [master |-> MASTER, stdin |-> STDIN, sock |-> SOCK]

\* C19: in an iteration whose wait reported descriptors ready, only
\* descriptors of the wait set were reported, those read so far are the first
\* of the ready ones in the order master, keyboard, socket, each once; a read
\* is of a ready descriptor not yet read; the timeout flush runs only in an
\* iteration with nothing ready; the loop comes back to its wait only when
\* every ready descriptor has been read; and without a server address the
\* socket is neither waited for nor read.
C19_ReadyServedOnceInOrder ==
    /\ [](/\ rfds \subseteq sockets
          /\ IsPrefix(served, Ordered(rfds))
          /\ (pc \in DOMAIN ReadAt =>
                 Append(served, ReadAt[pc]) = Take(Ordered(rfds), Len(served) + 1))
          /\ (pc = "timeout" => rfds = {})
          /\ (~server_address => (pc # "sock" /\ SOCK \notin sockets)))
    /\ [][(pc \in LoopPcs /\ pc # "select" /\ pc' = "select" /\ rfds # {})
             => served = Ordered(rfds)]_vars

\* C19's case: the wait reported all three descriptors ready and the third
\* read of the iteration, the socket's, is done.
C19_Witness ==
    /\ pc = "write" /\ wr.ret = "select"
    /\ rfds = {MASTER, STDIN, SOCK}
    /\ served = <<MASTER, STDIN, SOCK>>

====
